---- MODULE Spec2Model ----
(***************************************************************************)
(* Memory-enabled game server (express + LanceDB + Claude tool use).       *)
(*                                                                         *)
(* Three specifications over one set of variables:                         *)
(*   SpecRetry : callClaude, the bounded retry around one model request    *)
(*   SpecMem   : the memory service (saveMemory, findMemory, clearMemory,  *)
(*               GET /api/memories, POST /api/clear-memories)              *)
(*   SpecTurn  : processGameAction, one turn with the search_memory tool   *)
(*                                                                         *)
(* Numbers that are fractions in the source (importance, similarity,       *)
(* distance, thresholds) are kept in hundredths: 0.6 is 60, 0.1 is 10.     *)
(***************************************************************************)
EXTENDS Integers, Sequences, FiniteSets, TLC

\* ------------------------------------------------------------------ bounds
\* Most rows the table is grown to by the modelled writes.
MaxRows == 4
\* Most tool_use blocks in one Initial model response.
MaxToolUses == 3
\* Last value of the millisecond clock (Date.now()).
MaxClock == 1
\* saveMemory calls that overlap.
MaxSavers == 2
\* Turns the client plays to their successful end.
MaxTurns == 2
\* gameConfig.game.historyLength, read from the configuration file.
historyLength == 2
\* Entries a history grows to.
MaxHistory == 6
\* Games started with newGame.
MaxGames == 2
\* compress-history requests in flight at once.
MaxPending == 2

\* --------------------------------------------------------------- constants
\* callClaude(requestBody, retries = 3)
DefaultRetries == 3
\* const MEMORY_RELEVANCE_THRESHOLD = 0.6
MEMORY_RELEVANCE_THRESHOLD == 60
\* findMemory(query, limit = 3, ...) and `const { query, limit = 3 }`
DefaultLimit == 3
\* .limit(limit * 3)
OverFetchFactor == 3
\* if (parsedResponse.importance >= 0.1)
PersistenceThreshold == 10
\* findMemory(query as string, 100, searchThreshold) in GET /api/memories
AdminSearchLimit == 100
\* response.status === 529
StatusOverloaded == 529

NULL == "null"

\* JSON values that are lists of words: an array of strings, and one string
\* (held as its comma-separated parts).
JsonArray(items)  == [ type |-> "array", items |-> items ]
JsonString(items) == [ type |-> "string", items |-> items ]

VARIABLES
  \* ---- callClaude
  ccPc,            \* "idle", "fetching", "delaying", "returned", "thrown"
  attempt,         \* the loop variable of callClaude
  fetchLog,        \* what each fetch so far settled with, in order
  delayLog,        \* the delays (ms) waited so far, in order
  ccResult,        \* what callClaude returned: "none", "body", "undefined"
  \* ---- memory globals and the database behind them
  memoryDatabase,  \* NULL or "db"
  memoryTable,     \* NULL or "table": the handle to bilbo_memories
  embedder,        \* NULL or "pipeline"
  dbExists,        \* whether the table bilbo_memories exists in ./memory_db
  dbRows,          \* its rows, in insertion order
  modelLoadable,   \* whether pipeline(...) can load the embedding model
  clock,           \* Date.now()
  negativeLimitWraps, \* what the table's .limit(k) does with k < 0: TRUE when
                   \* the native binding reads k as an unsigned 32-bit number,
                   \* FALSE when it rejects the query
  lastOp,          \* the memory operation that completed last, and its outcome
  \* ---- one turn of processGameAction
  tPc,             \* "idle", "initial", "resolving", "followup", "saving", "done", "failed"
  rulesContent, dynamicContent,
  requests,        \* the request bodies handed to callClaude, in order
  data,            \* the Initial response
  toolResults,     \* handleMemorySearch's toolResults
  finalResponse,
  parsedResponse,
  saveCalls,       \* how often the turn called saveMemory
  turnError,       \* the error processGameAction threw, NULL if none
  rowsAtStart,     \* the table's rows when the turn began
  recalls,         \* the findMemory calls of the turn: arguments and result
  totalTokens,     \* processGameAction's totalTokens
  turnResult,      \* what processGameAction returned
  \* ---- saveMemory calls in flight, each at one of its awaits
  savers,          \* per call: where it stands, its record, whether it stored
  \* ---- the memory-enabled client (HobbitGame component)
  client,          \* playerAction, isProcessing, gameState, tokenUsage, memories
                   \* and where handleSubmitAction stands
  \* ---- the App.tsx client (TolkienRPG component) and its compress-history
  \* requests
  app              \* gameState (history, lastSummaryLength, historySummary),
                   \* the requests in flight and the last prompt built

retryVars == <<ccPc, attempt, fetchLog, delayLog, ccResult>>
memVars   == <<memoryDatabase, memoryTable, embedder, dbExists, dbRows,
               modelLoadable, clock, negativeLimitWraps>>
turnVars  == <<tPc, rulesContent, dynamicContent, requests, data, toolResults,
               finalResponse, parsedResponse, saveCalls, turnError, rowsAtStart,
               recalls, totalTokens, turnResult>>
vars == <<retryVars, memVars, lastOp, turnVars, savers, client, app>>

\* ================================================================ callClaude

\* What one fetch can settle with: an OK response with a JSON body, an OK
\* response whose body response.json() rejects, three error statuses, and a
\* rejected fetch (network error).
FetchOutcomes == {"ok", "okBadBody", "s529", "s400", "s500", "netErr"}

Status(o) ==
  CASE o = "s529" -> 529
    [] o = "s400" -> 400
    [] o = "s500" -> 500
    [] OTHER      -> 200

IsErrorStatus(o) == o \in {"s529", "s400", "s500"}

RECURSIVE Pow2(_)
Pow2(n) == IF n = 0 THEN 1 ELSE 2 * Pow2(n - 1)

\* const delay = Math.pow(2, attempt) * 1000
Backoff(a) == Pow2(a) * 1000

\* if (response.status === 529 && attempt < retries) { delay; continue }
Retry529Always(status, a, retries) == status = StatusOverloaded
Retry529(status, a, retries) == status = StatusOverloaded /\ a < retries

\* catch (error) { if (attempt === retries) throw error; delay }
CatchNeverRethrows(a, retries) == FALSE
CatchRethrows(a, retries) == a = retries

InitRetry ==
  /\ ccPc = "idle"
  /\ attempt = 0
  /\ fetchLog = <<>>
  /\ delayLog = <<>>
  /\ ccResult = "none"

\* callClaude is entered: for (let attempt = 1; ...) and the first fetch.
CallClaudeStart ==
  /\ ccPc = "idle"
  /\ attempt' = 1
  /\ ccPc' = IF 1 <= DefaultRetries THEN "fetching" ELSE "returned"
  /\ ccResult' = IF 1 <= DefaultRetries THEN "none" ELSE "undefined"
  /\ UNCHANGED <<fetchLog, delayLog>>

\* The pending fetch settles with outcome o and the loop body runs up to its
\* next await (the delay), its return or its throw.
FetchSettles(o) ==
  /\ ccPc = "fetching"
  /\ fetchLog' = Append(fetchLog, o)
  /\ IF o = "ok"
       THEN \* return await response.json()
            /\ ccPc' = "returned"
            /\ ccResult' = "body"
            /\ UNCHANGED <<attempt, delayLog>>
       ELSE IF IsErrorStatus(o) /\ Retry529(Status(o), attempt, DefaultRetries)
         THEN \* await delay; continue
              /\ ccPc' = "delaying"
              /\ delayLog' = Append(delayLog, Backoff(attempt))
              /\ UNCHANGED <<attempt, ccResult>>
         ELSE \* the fetch or response.json() rejected, or the throw of line 347:
              \* all three are inside the try and land in the catch
              IF CatchRethrows(attempt, DefaultRetries)
                THEN /\ ccPc' = "thrown"
                     /\ UNCHANGED <<attempt, delayLog, ccResult>>
                ELSE /\ ccPc' = "delaying"
                     /\ delayLog' = Append(delayLog, Backoff(attempt))
                     /\ UNCHANGED <<attempt, ccResult>>

\* The delay's timer fires: attempt++, the loop test, and the next fetch (or the
\* end of the function body, which returns undefined).
DelayElapses ==
  /\ ccPc = "delaying"
  /\ attempt' = attempt + 1
  /\ IF attempt + 1 <= DefaultRetries
       THEN ccPc' = "fetching" /\ UNCHANGED ccResult
       ELSE ccPc' = "returned" /\ ccResult' = "undefined"
  /\ UNCHANGED <<fetchLog, delayLog>>

\* ============================================================ memory service

\* The texts that are embedded. Contents (what is stored) and queries.
ContentTexts == {1, 2}
QueryTexts   == {1, 2, 3}

\* The embedding model ('feature-extraction', pooling 'mean', normalize true)
\* is a library: a text goes to a point, and the table's vector search reports
\* the distance between points. Distances here are 0, 30, 100 and 130
\* hundredths, so similarity 1 - distance takes the values 1, 0.7, 0 and -0.3.
TextPos == <<0, 30, 130>>
Embed(text) == <<TextPos[text]>>
Distance(v, w) == IF v[1] >= w[1] THEN v[1] - w[1] ELSE w[1] - v[1]

Min(a, b) == IF a <= b THEN a ELSE b
Max(a, b) == IF a >= b THEN a ELSE b

\* Array.prototype.slice(0, n)
Slice0(s, n) ==
  IF n >= 0 THEN SubSeq(s, 1, Min(n, Len(s)))
            ELSE SubSeq(s, 1, Max(Len(s) + n, 0))

\* createEmbedding: loads the pipeline when `embedder` is unset, then embeds.
createEmbeddingOk == embedder # NULL \/ modelLoadable
embedderAfterCreateEmbedding ==
  IF embedder = NULL /\ modelLoadable THEN "pipeline" ELSE embedder

\* const memoryRecord = { id: Date.now().toString(), ... createdAt: Date.now() }
memoryRecord(memoryData, time, location, now) ==
  [ id         |-> now,
    content    |-> memoryData.content,
    embeddings |-> Embed(memoryData.content),
    time       |-> time,
    location   |-> location,
    theme      |-> memoryData.theme,
    importance |-> memoryData.importance,
    emotions   |-> memoryData.emotions,
    createdAt  |-> now ]

\* memoryTable.vectorSearch(queryEmbedding).limit(k).toArray(): the k nearest
\* rows, nearest first (equal distances in insertion order), each with its
\* distance.
WithDistance(r, d) ==
  [ id |-> r.id, content |-> r.content, embeddings |-> r.embeddings,
    time |-> r.time, location |-> r.location, theme |-> r.theme,
    importance |-> r.importance, emotions |-> r.emotions,
    createdAt |-> r.createdAt, distance |-> d ]

\* s is sorted by distance; r goes behind every element at most as far as r.
RECURSIVE InsertByDistance(_, _)
InsertByDistance(s, r) ==
  IF s = <<>> \/ s[Len(s)].distance <= r.distance
    THEN Append(s, r)
    ELSE Append(InsertByDistance(SubSeq(s, 1, Len(s) - 1), r), s[Len(s)])

RECURSIVE NearestFirst(_, _)
NearestFirst(rows, qv) ==
  IF rows = <<>> THEN <<>>
  ELSE InsertByDistance(
         NearestFirst(SubSeq(rows, 1, Len(rows) - 1), qv),
         WithDistance(rows[Len(rows)], Distance(rows[Len(rows)].embeddings, qv)))

\* A negative k that is not rejected reaches the table as k + 2^32, which is
\* more than any table here has rows.
limitRejected(k) == k < 0 /\ ~negativeLimitWraps

vectorSearch(rows, qv, k) ==
  SubSeq(NearestFirst(rows, qv), 1, IF k < 0 THEN Len(rows) ELSE Min(k, Len(rows)))

\* const similarity = 1 - (result._distance || 0); return similarity >= threshold;
IsRelevantStrict(result, threshold) == 100 - result.distance > threshold
IsRelevant(result, threshold) == 100 - result.distance >= threshold

\* similarity: memory._distance ? (1 - memory._distance).toFixed(3) : 'N/A'
SimilarityField(d) == IF d # 0 THEN <<"toFixed3", 100 - d>> ELSE <<"N/A">>

\* relevantMemories.map(memory => ({ ...embeddings excluded }))
FoundMemory(m) ==
  [ content |-> m.content, time |-> m.time, location |-> m.location,
    theme |-> m.theme, importance |-> m.importance, emotions |-> m.emotions,
    createdAt |-> m.createdAt, similarity |-> SimilarityField(m.distance) ]

MapSeq(s, F(_)) == [ i \in 1..Len(s) |-> F(s[i]) ]

\* if (!memoryTable) return [];
findMemoryShortCircuitsNever == FALSE
findMemoryShortCircuits == memoryTable = NULL

\* findMemory(query, limit, threshold): the list it returns, how often it
\* called createEmbedding, and whether its catch block ran.
findMemory(query, limit, threshold) ==
  IF findMemoryShortCircuits
    THEN [ memories |-> <<>>, embedCalls |-> 0, caught |-> FALSE ]
  ELSE IF ~createEmbeddingOk
    THEN [ memories |-> <<>>, embedCalls |-> 1, caught |-> TRUE ]
  ELSE IF \/ memoryTable = NULL \/ ~dbExists
          \/ limitRejected(limit * OverFetchFactor)
          \/ Len(Embed(query)) # Len(dbRows[1].embeddings)
    THEN \* memoryTable.vectorSearch on null, on a dropped table, or rejected
         [ memories |-> <<>>, embedCalls |-> 1, caught |-> TRUE ]
  ELSE
    LET searchResults == vectorSearch(dbRows, Embed(query), limit * OverFetchFactor)
        relevantMemories ==
          Slice0(SelectSeq(searchResults, LAMBDA r : IsRelevant(r, threshold)), limit)
    IN  [ memories |-> MapSeq(relevantMemories, FoundMemory),
          embedCalls |-> 1, caught |-> FALSE ]

\* catch (error) { console.error(...); return []; }: nothing reaches the caller.
findMemoryThrowsWhenCaught(found) == found.caught
findMemoryThrows(found) == FALSE

\* The only trace findMemory leaves: the pipeline it may have loaded.
embedderAfterFindMemory ==
  IF findMemoryShortCircuits THEN embedder ELSE embedderAfterCreateEmbedding


\* ---- the database calls (LanceDB), as far as the server relies on them

\* createTable takes the table's schema from its first record; of a record's
\* shape the width of its vector column is kept. memoryTable.add rejects a
\* record of another shape (and any record once the table is gone).
shapeOf(embeddings) == Len(embeddings)
addThrows(embeddings) ==
  ~dbExists \/ shapeOf(embeddings) # shapeOf(dbRows[1].embeddings)

\* The emotions column has the type of the record the table was created
\* with; a value of another type does not fit it.
addRejects(emotions) ==
  dbExists /\ dbRows # << >> /\ emotions.type # dbRows[1].emotions.type

\* memoryDatabase.dropTable('bilbo_memories') rejects when the table does not
\* exist ("Table might not exist, that's fine"), and on a null memoryDatabase.
dropTableThrows == memoryDatabase = NULL \/ ~dbExists

\* ---- saveMemory(memoryData, time, location)

\* The whole body is one try block whose catch only logs: `stored` tells
\* whether the record reached the table, `created` whether the table was
\* created for it.
saveMemoryOutcomeGated(memoryData, time, location) ==
  IF ~createEmbeddingOk \/ memoryData.importance < PersistenceThreshold
    THEN [ stored |-> FALSE, created |-> FALSE ]
  ELSE IF memoryTable = NULL
    THEN [ stored |-> memoryDatabase # NULL, created |-> memoryDatabase # NULL ]
    ELSE [ stored |-> dbExists, created |-> FALSE ]
saveMemoryOutcome(memoryData, time, location) ==
  IF ~createEmbeddingOk
    THEN [ stored |-> FALSE, created |-> FALSE ]
  ELSE IF memoryTable = NULL
    THEN \* dropTable in its own try/catch, then createTable
         IF memoryDatabase = NULL
           THEN [ stored |-> FALSE, created |-> FALSE ]
           ELSE [ stored |-> TRUE, created |-> TRUE ]
  ELSE \* memoryTable.add([memoryRecord])
       IF addThrows(Embed(memoryData.content)) \/ addRejects(memoryData.emotions)
         THEN [ stored |-> FALSE, created |-> FALSE ]
         ELSE [ stored |-> TRUE, created |-> FALSE ]

\* catch (error) { console.error('Error saving memory:', error); }
saveMemoryThrowsUnlessStored(out) == ~out.stored
saveMemoryThrows(out) == FALSE

\* The rows of the table after saveMemory took the create branch.
rowsAfterCreate(rec) == <<rec>>

saveMemory(memoryData, time, location) ==
  LET out == saveMemoryOutcome(memoryData, time, location)
      rec == memoryRecord(memoryData, time, location, clock)
  IN  /\ embedder' = embedderAfterCreateEmbedding
      /\ IF ~createEmbeddingOk
           THEN UNCHANGED <<memoryTable, dbExists, dbRows>>
         ELSE IF memoryTable = NULL
           THEN IF memoryDatabase = NULL
                  THEN UNCHANGED <<memoryTable, dbExists, dbRows>>
                  ELSE /\ dbExists' = TRUE
                       /\ dbRows' = rowsAfterCreate(rec)
                       /\ memoryTable' = "table"
         ELSE IF addThrows(rec.embeddings)
           THEN UNCHANGED <<memoryTable, dbExists, dbRows>>
           ELSE /\ dbRows' = Append(dbRows, rec)
                /\ UNCHANGED <<memoryTable, dbExists>>
      /\ UNCHANGED <<memoryDatabase, modelLoadable, clock, negativeLimitWraps>>

\* ---- POST /api/save-memory

\* memoryDatabase.createTable('bilbo_memories', rows) without a mode rejects
\* when the table exists, and on a null memoryDatabase.
createTableThrows == memoryDatabase = NULL \/ dbExists

\* The request body: a record of a saved game, with or without its embeddings.
savedRecord(memoryData, time, location, hasEmbeddings) ==
  [ r \in { "id", "content", "time", "location", "theme", "importance",
            "emotions", "createdAt" }
         \cup (IF hasEmbeddings THEN { "embeddings" } ELSE {}) |->
      memoryRecord(memoryData, time, location, 0)[r] ]

\* A record whose embeddings came from an embedding model of another width.
foreignRecord(memoryData, time, location) ==
  [ savedRecord(memoryData, time, location, TRUE) EXCEPT
      !.embeddings = << TextPos[memoryData.content], 0 >> ]

\* if (!memoryData.embeddings) memoryData.embeddings = await createEmbedding(...)
withEmbeddings(body) ==
  [ r \in DOMAIN body \cup { "embeddings" } |->
      IF r = "embeddings" /\ r \notin DOMAIN body THEN Embed(body.content)
      ELSE body[r] ]

\* The handler's answer were a failed createEmbedding not to end it.
postSaveMemoryOutcomeUnguarded(body) ==
  IF memoryTable = NULL
    THEN IF createTableThrows
           THEN [ status |-> 500, stored |-> FALSE, created |-> FALSE ]
           ELSE [ status |-> 200, stored |-> TRUE, created |-> TRUE ]
  ELSE IF addThrows(withEmbeddings(body).embeddings)
    THEN [ status |-> 500, stored |-> FALSE, created |-> FALSE ]
    ELSE [ status |-> 200, stored |-> TRUE, created |-> FALSE ]

\* The handler's answer and whether the body reached the table.
postSaveMemoryOutcome(body) ==
  IF "embeddings" \notin DOMAIN body /\ ~createEmbeddingOk
    THEN [ status |-> 500, stored |-> FALSE, created |-> FALSE ]
  ELSE IF memoryTable = NULL
    THEN IF createTableThrows
           THEN [ status |-> 500, stored |-> FALSE, created |-> FALSE ]
           ELSE [ status |-> 200, stored |-> TRUE, created |-> TRUE ]
  ELSE IF addThrows(withEmbeddings(body).embeddings)
    THEN [ status |-> 500, stored |-> FALSE, created |-> FALSE ]
    ELSE [ status |-> 200, stored |-> TRUE, created |-> FALSE ]

postSaveMemory(body) ==
  LET out == postSaveMemoryOutcome(body)
  IN  /\ embedder' = IF "embeddings" \in DOMAIN body THEN embedder
                     ELSE embedderAfterCreateEmbedding
      /\ IF ~out.stored
           THEN UNCHANGED <<memoryTable, dbExists, dbRows>>
         ELSE IF out.created
           THEN /\ dbExists' = TRUE
                /\ dbRows' = << withEmbeddings(body) >>
                /\ memoryTable' = "table"
           ELSE /\ dbRows' = Append(dbRows, withEmbeddings(body))
                /\ UNCHANGED <<memoryTable, dbExists>>
      /\ UNCHANGED <<memoryDatabase, modelLoadable, clock, negativeLimitWraps>>

\* ---- clearMemory()

\* The body is one try block whose catch only logs, so nothing is thrown to
\* the caller; dropThrew tells whether dropTable rejected inside it.
clearMemoryOutcomeNoCatch ==
  [ threw |-> memoryDatabase # NULL /\ dropTableThrows,
    dropThrew |-> memoryDatabase # NULL /\ dropTableThrows ]
clearMemoryOutcome ==
  [ threw |-> FALSE, dropThrew |-> memoryDatabase # NULL /\ dropTableThrows ]

\* memoryTable after a clearMemory in which dropTable succeeded (or was skipped).
handleAfterClearKept == memoryTable
handleAfterClear == NULL

clearMemory ==
  /\ IF memoryDatabase # NULL
       THEN IF dropTableThrows
              THEN \* caught: 'Memory already empty'; line 157 is not reached
                   UNCHANGED <<memoryTable, dbExists, dbRows>>
              ELSE /\ dbExists' = FALSE
                   /\ dbRows' = <<>>
                   /\ memoryTable' = handleAfterClear
       ELSE /\ memoryTable' = handleAfterClear
            /\ UNCHANGED <<dbExists, dbRows>>
  /\ UNCHANGED <<memoryDatabase, embedder, modelLoadable, clock, negativeLimitWraps>>

\* ---- GET /api/memories

\* memories.sort((a, b) => b.createdAt - a.createdAt): stable, newest first.
RECURSIVE InsertByCreatedAt(_, _)
InsertByCreatedAt(s, r) ==
  IF s = <<>> \/ s[Len(s)].createdAt >= r.createdAt
    THEN Append(s, r)
    ELSE Append(InsertByCreatedAt(SubSeq(s, 1, Len(s) - 1), r), s[Len(s)])

RECURSIVE SortByCreatedAtDesc(_)
SortByCreatedAtDesc(rows) ==
  IF rows = <<>> THEN <<>>
  ELSE InsertByCreatedAt(SortByCreatedAtDesc(SubSeq(rows, 1, Len(rows) - 1)),
                         rows[Len(rows)])

\* The handler's answer: the HTTP status, the JSON body and the createEmbedding
\* calls it made. hasQuery tells whether req.query.query is set.
getMemoriesGuard == memoryTable = NULL

getMemoriesUnsorted(hasQuery, query, threshold) ==
  IF getMemoriesGuard
    THEN [ status |-> 200, body |-> <<>>, embedCalls |-> 0 ]
  ELSE IF hasQuery
    THEN [ status |-> 200,
           body |-> findMemory(query, AdminSearchLimit, threshold).memories,
           embedCalls |-> findMemory(query, AdminSearchLimit, threshold).embedCalls ]
    ELSE [ status |-> 200, body |-> dbRows, embedCalls |-> 0 ]
getMemories(hasQuery, query, threshold) ==
  IF getMemoriesGuard
    THEN [ status |-> 200, body |-> <<>>, embedCalls |-> 0 ]
  ELSE IF hasQuery
    THEN LET found == findMemory(query, AdminSearchLimit, threshold)
         IN  [ status |-> 200, body |-> found.memories, embedCalls |-> found.embedCalls ]
  ELSE IF memoryTable = NULL \/ ~dbExists
    THEN [ status |-> 500, body |-> <<>>, embedCalls |-> 0 ]
    ELSE [ status |-> 200, body |-> SortByCreatedAtDesc(dbRows), embedCalls |-> 0 ]

\* What GET /api/memories without a query answers in the current state.
listAll == getMemories(FALSE, 1, 0)


\* ---- the memory service as a specification

FixedTime     == "1 June 2941, morning"
FixedLocation == "Shire -> Hobbiton -> Bag End"
Importances   == {0, 50}
Limits        == {-1, 0, 1, 2}
Thresholds    == {0, MEMORY_RELEVANCE_THRESHOLD}

MemoryData(content, importance) ==
  [ content |-> content, summary |-> "summary", theme |-> "theme",
    importance |-> importance, emotions |-> JsonArray(<<"calm">>) ]

\* What is handed to the two write paths: an important memory and one with
\* importance 0.
MemoryInputs == { MemoryData(c, IF c = 1 THEN 50 ELSE 0) : c \in ContentTexts }

\* A table left by an earlier server process: two rows written before this
\* process's clock began.
SeedRows ==
  << memoryRecord(MemoryData(1, 50), FixedTime, FixedLocation, -2),
     memoryRecord(MemoryData(2, 5), FixedTime, FixedLocation, -1) >>

NoOp == [ op |-> "none" ]
\* No response received yet, nothing parsed yet.
NoResponse == [ content |-> <<>>, none |-> TRUE ]
NoParse == [ none |-> TRUE ]
NoResult == [ none |-> TRUE ]

\* startServer: initializeMemory connects and opens bilbo_memories if it exists.
InitMemory ==
  /\ memoryDatabase = "db"
  /\ \/ memoryTable = NULL /\ dbExists = FALSE /\ dbRows = <<>>
     \/ memoryTable = "table" /\ dbExists = TRUE /\ dbRows = SeedRows
  /\ embedder = NULL
  /\ modelLoadable \in BOOLEAN
  /\ clock = 0
  /\ negativeLimitWraps \in BOOLEAN
  /\ lastOp = NoOp

UnchangedBesideMemory == UNCHANGED <<retryVars, turnVars, savers, client, app>>

Tick ==
  /\ clock < MaxClock
  /\ clock' = clock + 1
  /\ UNCHANGED <<memoryDatabase, memoryTable, embedder, dbExists, dbRows,
                 modelLoadable, negativeLimitWraps, lastOp>>
  /\ UnchangedBesideMemory

SaveMemoryCall(memoryData) ==
  /\ Len(dbRows) < MaxRows
  /\ saveMemory(memoryData, FixedTime, FixedLocation)
  /\ lastOp' =
       [ op |-> "saveMemory",
         out |-> saveMemoryOutcome(memoryData, FixedTime, FixedLocation),
         threw |-> saveMemoryThrows(
                     saveMemoryOutcome(memoryData, FixedTime, FixedLocation)),
         record |-> memoryRecord(memoryData, FixedTime, FixedLocation, clock) ]
  /\ UnchangedBesideMemory

SaveMemoryRequest(body) ==
  /\ Len(dbRows) < MaxRows
  /\ postSaveMemory(body)
  /\ lastOp' = [ op |-> "postSaveMemory",
                 out |-> postSaveMemoryOutcome(body),
                 sentEmbeddings |-> "embeddings" \in DOMAIN body,
                 record |-> withEmbeddings(body) ]
  /\ UnchangedBesideMemory

\* POST /api/clear-memories: await clearMemory(); res.json({ success: true })
ClearMemoriesRequest ==
  /\ clearMemory
  /\ lastOp' = [ op |-> "clearMemory", out |-> clearMemoryOutcome ]
  /\ UnchangedBesideMemory

FindMemoryCall(query, limit, threshold) ==
  /\ embedder' = embedderAfterFindMemory
  /\ lastOp' = [ op |-> "findMemory", query |-> query, limit |-> limit,
                 threshold |-> threshold,
                 found |-> findMemory(query, limit, threshold),
                 threw |-> findMemoryThrows(findMemory(query, limit, threshold)) ]
  /\ UNCHANGED <<memoryDatabase, memoryTable, dbExists, dbRows, modelLoadable,
                 clock, negativeLimitWraps>>
  /\ UnchangedBesideMemory

GetMemoriesRequest(hasQuery, query, threshold) ==
  /\ embedder' = IF getMemoriesGuard \/ ~hasQuery
                   THEN embedder ELSE embedderAfterFindMemory
  /\ lastOp' = [ op |-> "getMemories", hasQuery |-> hasQuery, query |-> query,
                 threshold |-> threshold,
                 res |-> getMemories(hasQuery, query, threshold) ]
  /\ UNCHANGED <<memoryDatabase, memoryTable, dbExists, dbRows, modelLoadable,
                 clock, negativeLimitWraps>>
  /\ UnchangedBesideMemory

InitTurnIdle ==
  /\ tPc = "idle" /\ rulesContent = NULL /\ dynamicContent = NULL
  /\ requests = <<>> /\ data = NoResponse /\ toolResults = <<>>
  /\ finalResponse = NoResponse /\ parsedResponse = NoParse /\ saveCalls = 0
  /\ turnError = NULL /\ rowsAtStart = <<>> /\ recalls = <<>> /\ totalTokens = 0
  /\ turnResult = NoResult

\* No saveMemory call has begun.
SaverIds == 1..MaxSavers
NoRecord == [ none |-> TRUE ]
InitSaversIdle ==
  savers = [ p \in SaverIds |->
             [ pc |-> "idle", record |-> NoRecord, stored |-> FALSE, loads |-> FALSE ] ]

\* The component as mounted: empty input, nothing in flight. gameState is
\* numbered by the turns the server has added to its history.
InitClientIdle ==
  client = [ pc |-> "idle", playerAction |-> "", isProcessing |-> FALSE,
             gameState |-> 0, tokenUsage |-> [ total |-> 0 ],
             memories |-> "initial", action |-> "", lastReply |-> "none",
             inFlight |-> 0 ]

\* The TolkienRPG component as mounted: useState's initial gameState, no
\* request in flight, no prompt built yet.
NoPrompt == [ summary |-> {}, verbatim |-> << >> ]
InitAppIdle ==
  app = [ game |-> "g0", started |-> 0,
          history |-> << >>, lastSummaryLength |-> 0, historySummary |-> {},
          pending |-> << >>, prompt |-> NoPrompt ]

InitMem ==
  /\ InitMemory /\ InitRetry /\ InitTurnIdle /\ InitSaversIdle
  /\ InitClientIdle /\ InitAppIdle

NextMem ==
  \/ Tick
  \/ \E m \in MemoryInputs : SaveMemoryCall(m)
  \/ \E m \in MemoryInputs, hasEmbeddings \in BOOLEAN :
       SaveMemoryRequest(savedRecord(m, FixedTime, FixedLocation, hasEmbeddings))
  \/ ClearMemoriesRequest
  \/ \E q \in QueryTexts, l \in Limits, t \in Thresholds : FindMemoryCall(q, l, t)
  \/ \E hasQuery \in BOOLEAN, q \in QueryTexts, t \in Thresholds :
       GetMemoriesRequest(hasQuery, IF hasQuery THEN q ELSE 1, IF hasQuery THEN t ELSE 0)

SpecMem == InitMem /\ [][NextMem]_vars

\* ---- the memory service over a table that could not be opened

\* initializeMemory when openTable rejects although bilbo_memories exists (the
\* catch of line 141 takes every rejection): the handle is null over a table
\* that holds rows, the case saveMemory's dropTable is written for.
InitUnopened ==
  /\ memoryDatabase = "db"
  /\ memoryTable = NULL /\ dbExists = TRUE /\ dbRows = SeedRows
  /\ embedder = NULL
  /\ modelLoadable \in BOOLEAN
  /\ clock = 0
  /\ negativeLimitWraps = TRUE
  /\ lastOp = NoOp

\* The bodies posted to /api/save-memory: records of a saved game without
\* embeddings, and with embeddings of another width.
StoreBodies ==
  { savedRecord(m, FixedTime, FixedLocation, FALSE) : m \in MemoryInputs }
  \cup { foreignRecord(m, FixedTime, FixedLocation) : m \in MemoryInputs }

\* initializeMemory() in a newly started process: connect, then openTable,
\* whose every rejection is taken for 'table does not exist yet'.
initializeMemory(openTableRejects) ==
  /\ memoryDatabase' = "db"
  /\ memoryTable' = IF dbExists /\ ~openTableRejects THEN "table" ELSE NULL
  /\ embedder' = NULL
  /\ UNCHANGED <<dbExists, dbRows, modelLoadable, clock, negativeLimitWraps>>

\* startServer: the process starts over the database directory as it is.
StartServer(openTableRejects) ==
  /\ initializeMemory(openTableRejects)
  /\ lastOp' = [ op |-> "initializeMemory", opened |-> memoryTable' # NULL ]
  /\ UnchangedBesideMemory

InitStore ==
  /\ InitUnopened /\ InitRetry /\ InitTurnIdle /\ InitSaversIdle
  /\ InitClientIdle /\ InitAppIdle

NextStore ==
  \/ Tick
  \/ \E m \in MemoryInputs : SaveMemoryCall(m)
  \/ \E body \in StoreBodies : SaveMemoryRequest(body)
  \/ ClearMemoriesRequest
  \/ \E q \in QueryTexts : FindMemoryCall(q, 2, 0)
  \/ GetMemoriesRequest(FALSE, 1, 0)
  \/ \E openTableRejects \in BOOLEAN : StartServer(openTableRejects)

SpecStore == InitStore /\ [][NextStore]_vars

\* ---- callClaude as a specification
InitRetryOnly ==
  /\ InitRetry
  /\ memoryDatabase = "db" /\ memoryTable = NULL /\ dbExists = FALSE
  /\ dbRows = <<>> /\ embedder = NULL /\ modelLoadable = TRUE /\ clock = 0
  /\ negativeLimitWraps = TRUE
  /\ lastOp = NoOp
  /\ InitTurnIdle
  /\ InitSaversIdle
  /\ InitClientIdle
  /\ InitAppIdle

NextRetry ==
  \/ CallClaudeStart /\ UNCHANGED <<memVars, lastOp, turnVars, savers, client, app>>
  \/ \E o \in FetchOutcomes : FetchSettles(o) /\ UNCHANGED <<memVars, lastOp, turnVars, savers, client, app>>
  \/ DelayElapses /\ UNCHANGED <<memVars, lastOp, turnVars, savers, client, app>>

SpecRetry == InitRetryOnly /\ [][NextRetry]_vars


\* ======================================================== processGameAction

\* ---- what the model can answer

\* The text of a text block, by what parseGameResponse makes of it: "" (falsy),
\* text without braces, text whose braces do not hold valid JSON, and text
\* holding a JSON object.
EmptyText  == [ kind |-> "empty" ]
Prose      == [ kind |-> "prose" ]
BadJson    == [ kind |-> "badjson" ]
Json(obj)  == [ kind |-> "json", object |-> obj ]
Undefined  == [ kind |-> "undefined" ]

\* The parsed answers: `importance` absent, 0.09 and 0.1.
Answer ==
  [ memory |-> 1, reaction |-> "reaction", worldResponse |-> "world",
    newEmotions |-> JsonArray(<<"calm">>) ]
AnswerWith(i) ==
  [ memory |-> 1, reaction |-> "reaction", worldResponse |-> "world",
    newEmotions |-> JsonArray(<<"calm">>), importance |-> i ]
\* An answer of importance 0.1 whose newEmotions is one string, "calm".
AnswerWithEmotionsText ==
  [ AnswerWith(10) EXCEPT !.newEmotions = JsonString(<<"calm">>) ]
JsonObjects ==
  { Answer, AnswerWithEmotionsText } \cup { AnswerWith(i) : i \in {9, 10} }

Texts == { EmptyText, Prose, BadJson } \cup { Json(o) : o \in JsonObjects }

TextBlock(t) == [ type |-> "text", text |-> t ]
ToolUseBlock(id, call) ==
  [ type |-> "tool_use", id |-> id, name |-> call.name, input |-> call.input ]

\* The tool requests a response can hold: three memory searches (two leave
\* `limit` out) and a request for a tool this server does not know.
ToolCalls ==
  { [ name |-> "search_memory", input |-> [ query |-> 1 ] ],
    [ name |-> "search_memory", input |-> [ query |-> 2, limit |-> 1 ] ],
    [ name |-> "search_memory", input |-> [ query |-> 3 ] ],
    [ name |-> "other_tool",    input |-> [ query |-> 1 ] ] }

ToolCallSeqs == UNION { [ 1..n -> ToolCalls ] : n \in 0..MaxToolUses }

\* data.usage of the two round trips.
InitialUsage  == [ input_tokens |-> 1200, output_tokens |-> 300 ]
FollowupUsage == [ input_tokens |-> 1500, output_tokens |-> 250 ]

\* An Initial response: at most one leading text block, then the tool_use
\* blocks; a block's id is its place in the response.
InitialResponses ==
  { [ content |-> [ i \in 1..(Len(lead) + Len(calls)) |->
                      IF i <= Len(lead) THEN lead[i]
                      ELSE ToolUseBlock(i, calls[i - Len(lead)]) ],
      usage |-> InitialUsage ] :
      lead \in { <<>> } \cup { <<TextBlock(t)>> : t \in Texts },
      calls \in ToolCallSeqs }

\* A Finalizing response: no block, one text block, or (a model that was
\* offered no tool and answers with tool syntax all the same) tool_use blocks.
FollowupResponses ==
  { [ content |-> <<>>, usage |-> FollowupUsage ] }
  \cup { [ content |-> <<TextBlock(t)>>, usage |-> FollowupUsage ] : t \in Texts }
  \cup { [ content |-> <<TextBlock(t),
                         ToolUseBlock(2, [ name |-> "search_memory",
                                           input |-> [ query |-> 1 ] ])>>,
           usage |-> FollowupUsage ] :
           t \in { Prose, Json(AnswerWith(10)) } }
  \cup { [ content |-> <<ToolUseBlock(1, [ name |-> "search_memory",
                                           input |-> [ query |-> 1 ] ])>>,
           usage |-> FollowupUsage ] }

\* ---- buildPrompt, as far as the orchestration reads it: the two texts
buildPrompt(language, action) ==
  [ rulesContent   |-> <<"rules.md", language>>,
    dynamicContent |-> <<"prompt.md", language, action>> ]

\* ---- callClaudeWithTools

searchMemoryTool ==
  [ name |-> "search_memory",
    properties |-> [ query |-> [ type |-> "string" ],
                     limit |-> [ type |-> "number", default |-> 5 ] ],
    required |-> <<"query">> ]

userPrompt(rules, dynamic) ==
  [ role |-> "user",
    content |-> << [ type |-> "text", text |-> rules, cache_control |-> "ephemeral" ],
                   [ type |-> "text", text |-> dynamic ] >> ]

initialRequest(rules, dynamic) ==
  [ model |-> "gameConfig.api.anthropic.model",
    max_tokens |-> 3000,
    messages |-> << userPrompt(rules, dynamic) >>,
    tools |-> << searchMemoryTool >> ]

\* ---- handleMemorySearch

\* data.content.filter(item => item.type === 'tool_use' && item.name === 'search_memory')
toolUsesOfKnownTools(content) ==
  SelectSeq(content, LAMBDA item :
    item.type = "tool_use" /\ item.name \in { "search_memory", "other_tool" })
toolUsesOfAnyName(content) ==
  SelectSeq(content, LAMBDA item : item.type = "tool_use")
toolUsesOf(content) ==
  SelectSeq(content, LAMBDA item : item.type = "tool_use" /\ item.name = "search_memory")

\* if (toolUses.length === 0) return data;
returnsDataAsIsUpToOne(uses) == Len(uses) <= 1
returnsDataAsIs(uses) == Len(uses) = 0

\* const { query, limit = 3 } = toolUse.input;
limitOf(input) == IF "limit" \in DOMAIN input THEN input.limit ELSE DefaultLimit

\* memories.map(m => `${m.content} (importance: ${m.importance})`).join('\n'),
\* or 'No relevant memories found': a text is the sequence of its lines.
memoriesTextJoinOnly(memories) ==
  MapSeq(memories, LAMBDA m : <<m.content, "(importance:", m.importance, ")">>)
memoriesText(memories) ==
  IF Len(memories) > 0
    THEN MapSeq(memories, LAMBDA m : <<m.content, "(importance:", m.importance, ")">>)
    ELSE << <<"No relevant memories found">> >>

toolResult(toolUse, memories) ==
  [ type |-> "tool_result", tool_use_id |-> toolUse.id,
    content |-> memoriesText(memories) ]

FinalInstruction ==
  "Now provide your complete JSON game response based on the search results above."

followupRequestWithTools(rules, dynamic, dataContent, results) ==
  [ model |-> "gameConfig.api.anthropic.model",
    max_tokens |-> 2500,
    messages |-> << userPrompt(rules, dynamic),
                    [ role |-> "assistant", content |-> dataContent ],
                    [ role |-> "user", content |-> results ],
                    [ role |-> "user", content |-> FinalInstruction ] >>,
    tools |-> << searchMemoryTool >> ]
followupRequest(rules, dynamic, dataContent, results) ==
  [ model |-> "gameConfig.api.anthropic.model",
    max_tokens |-> 2500,
    messages |-> << userPrompt(rules, dynamic),
                    [ role |-> "assistant", content |-> dataContent ],
                    [ role |-> "user", content |-> results ],
                    [ role |-> "user", content |-> FinalInstruction ] >> ]

\* ---- parseGameResponse and the rest of processGameAction

\* (data.usage?.input_tokens || 0) + (data.usage?.output_tokens || 0)
calculateTokens(response) ==
  IF "usage" \in DOMAIN response
    THEN response.usage.input_tokens + response.usage.output_tokens
    ELSE 0

\* data.content && data.content.some(item => item.type === 'tool_use')
hasToolUse(content) == \E i \in 1..Len(content) : content[i].type = "tool_use"

\* responseText.match(/\{[\s\S]*\}/), then JSON.parse
parseThrows(text) == text.kind \in { "prose", "badjson" }
parseError(text) ==
  IF text.kind = "prose" THEN "No JSON found in response" ELSE "SyntaxError"

\* response.content?.[0]?.text
firstText(response) ==
  IF Len(response.content) = 0 THEN Undefined
  ELSE IF response.content[1].type = "text" THEN response.content[1].text
  ELSE Undefined

Truthy(text) == text.kind \notin { "undefined", "empty" }

\* finalResponse.content?.[0]?.text || data.content?.[0]?.text
responseText(final, initial) ==
  IF Truthy(firstText(final)) THEN firstText(final) ELSE firstText(initial)

\* if (parsedResponse.importance >= 0.1)
importantEnoughStrict(parsed) ==
  "importance" \in DOMAIN parsed /\ parsed.importance > PersistenceThreshold
importantEnough(parsed) ==
  "importance" \in DOMAIN parsed /\ parsed.importance >= PersistenceThreshold

\* const memoryWithLocation = `${timePrefix}, ${locationPrefix}: ${parsedResponse.memory}`
\* (texts are numbered so that text m + 1 is text m behind that prefix)
memoryWithLocation(memory) == memory + 1

turnMemoryData(parsed) ==
  [ content |-> memoryWithLocation(parsed.memory), summary |-> "summary",
    theme |-> "theme", importance |-> parsed.importance,
    emotions |-> parsed.newEmotions ]

\* if (parsedResponse.reaction) ... description: parsedResponse.newEmotions.join(', ')
\* is a TypeError when newEmotions is not an array.
historyThrows(parsed) ==
  parsed.reaction # "" /\ parsed.newEmotions.type # "array"

\* processGameAction from the final response on, up to its next await (the
\* call of saveMemory), its return or its throw.
afterFinalResponse(initial, final) ==
  LET text == responseText(final, initial)
  IN  IF ~Truthy(text)
        THEN [ pc |-> "failed", error |-> "Claude returned empty response",
               parsed |-> NoParse, saves |-> 0 ]
      ELSE IF parseThrows(text)
        THEN [ pc |-> "failed", error |-> parseError(text),
               parsed |-> NoParse, saves |-> 0 ]
      ELSE IF importantEnough(text.object)
        THEN [ pc |-> "saving", error |-> NULL, parsed |-> text.object, saves |-> 1 ]
      ELSE IF historyThrows(text.object)
        THEN [ pc |-> "failed", error |-> "TypeError",
               parsed |-> text.object, saves |-> 0 ]
        ELSE [ pc |-> "done", error |-> NULL, parsed |-> text.object, saves |-> 0 ]


\* updatedHistory and the returned object, as far as they come from the parsed
\* answer and the token count (a joined text is the sequence of its parts).
buildResponse(parsed, total) ==
  [ reaction |-> parsed.reaction,
    worldResponse |-> parsed.worldResponse,
    usage |-> [ total |-> total ],
    gameState |->
      [ emotions |-> parsed.newEmotions,
        event |-> parsed.worldResponse,
        history |-> << [ content |-> parsed.reaction, type |-> "bilbo",
                         description |-> parsed.newEmotions.items ],
                       [ content |-> parsed.worldResponse, type |-> "world",
                         description |-> <<>> ] >> ] ]

\* ---- the turn, step by step (one step per await that settles)

Languages == { "en", "ru" }

UnchangedBesideTurn == UNCHANGED <<retryVars, lastOp, savers, client, app>>
UnchangedStore ==
  UNCHANGED <<memoryDatabase, memoryTable, dbExists, dbRows, modelLoadable, clock,
              negativeLimitWraps>>

\* POST /api/process-game-action arrives: buildPrompt, the log entry, and
\* callClaudeWithTools hands the Initial request to callClaude.
StartTurn(language) ==
  /\ tPc = "idle"
  /\ rulesContent' = buildPrompt(language, "action").rulesContent
  /\ dynamicContent' = buildPrompt(language, "action").dynamicContent
  /\ requests' = << initialRequest(buildPrompt(language, "action").rulesContent,
                                   buildPrompt(language, "action").dynamicContent) >>
  /\ rowsAtStart' = dbRows
  /\ tPc' = "initial"
  /\ UNCHANGED <<data, toolResults, finalResponse, parsedResponse, saveCalls,
                 turnError, recalls, totalTokens, turnResult, embedder>>
  /\ UnchangedStore /\ UnchangedBesideTurn

\* callClaude throws (retries exhausted): processGameAction rethrows.
InitialCallFails ==
  /\ tPc = "initial"
  /\ tPc' = "failed"
  /\ turnError' = "Claude API failed"
  /\ UNCHANGED <<rulesContent, dynamicContent, requests, data, toolResults,
                 finalResponse, parsedResponse, saveCalls, rowsAtStart, recalls,
                 totalTokens, turnResult, embedder>>
  /\ UnchangedStore /\ UnchangedBesideTurn

\* The Initial response arrives. Without a tool_use block, or with none that
\* names search_memory, it is the final response; otherwise handleMemorySearch
\* starts its loop.
InitialResponseArrives(response) ==
  /\ tPc = "initial"
  /\ data' = response
  /\ IF hasToolUse(response.content) /\ ~returnsDataAsIs(toolUsesOf(response.content))
       THEN /\ tPc' = "resolving"
            /\ totalTokens' = calculateTokens(response)
            /\ UNCHANGED <<finalResponse, parsedResponse, saveCalls, turnError>>
       ELSE LET next == afterFinalResponse(response, response)
            IN  /\ finalResponse' = response
                \* totalTokens += calculateTokens(finalResponse) runs whenever
                \* the response holds a tool_use block
                /\ totalTokens' = calculateTokens(response)
                     + (IF hasToolUse(response.content)
                          THEN calculateTokens(response) ELSE 0)
                /\ tPc' = next.pc
                /\ turnError' = next.error
                /\ parsedResponse' = next.parsed
                /\ saveCalls' = saveCalls + next.saves
  /\ turnResult' = IF tPc' = "done"
                     THEN buildResponse(parsedResponse', totalTokens') ELSE turnResult
  /\ UNCHANGED <<rulesContent, dynamicContent, requests, toolResults, rowsAtStart,
                 recalls, embedder>>
  /\ UnchangedStore /\ UnchangedBesideTurn

\* One pass of `for (const toolUse of toolUses)`: findMemory(query, limit) and
\* the push; after the last pass the follow-up request goes to callClaude.
ResolveToolUse ==
  /\ tPc = "resolving"
  /\ LET uses    == toolUsesOf(data.content)
         toolUse == uses[Len(toolResults) + 1]
         found   == findMemory(toolUse.input.query, limitOf(toolUse.input),
                               MEMORY_RELEVANCE_THRESHOLD)
         results == Append(toolResults, toolResult(toolUse, found.memories))
     IN  /\ recalls' = Append(recalls, [ query |-> toolUse.input.query,
                                         limit |-> limitOf(toolUse.input),
                                         memories |-> found.memories,
                                         caught |-> found.caught ])
         /\ IF findMemoryThrows(found)
              THEN \* the rejection would leave the loop and processGameAction
                   /\ tPc' = "failed"
                   /\ turnError' = "Error finding memories"
                   /\ UNCHANGED <<toolResults, requests>>
            ELSE /\ toolResults' = results
                 /\ UNCHANGED turnError
                 /\ IF Len(results) = Len(uses)
                      THEN /\ requests' = Append(requests,
                                 followupRequest(rulesContent, dynamicContent,
                                                 data.content, results))
                           /\ tPc' = "followup"
                      ELSE UNCHANGED <<requests, tPc>>
  /\ embedder' = embedderAfterFindMemory
  /\ UNCHANGED <<rulesContent, dynamicContent, data, finalResponse, parsedResponse,
                 saveCalls, rowsAtStart, totalTokens, turnResult>>
  /\ UnchangedStore /\ UnchangedBesideTurn

FollowupCallFails ==
  /\ tPc = "followup"
  /\ tPc' = "failed"
  /\ turnError' = "Claude API failed"
  /\ UNCHANGED <<rulesContent, dynamicContent, requests, data, toolResults,
                 finalResponse, parsedResponse, saveCalls, rowsAtStart, recalls,
                 totalTokens, turnResult, embedder>>
  /\ UnchangedStore /\ UnchangedBesideTurn

\* The follow-up response arrives: handleMemorySearch returns it as it is.
FollowupResponseArrives(response) ==
  /\ tPc = "followup"
  /\ LET next == afterFinalResponse(data, response)
     IN  /\ finalResponse' = response
         /\ tPc' = next.pc
         /\ turnError' = next.error
         /\ parsedResponse' = next.parsed
         /\ saveCalls' = saveCalls + next.saves
  /\ totalTokens' = totalTokens + calculateTokens(response)
  /\ turnResult' = IF tPc' = "done"
                     THEN buildResponse(parsedResponse', totalTokens') ELSE turnResult
  /\ UNCHANGED <<rulesContent, dynamicContent, requests, data, toolResults,
                 rowsAtStart, recalls, embedder>>
  /\ UnchangedStore /\ UnchangedBesideTurn

\* await saveMemory(...) settles (it never rejects) and the turn returns.
SaveMemorySettles ==
  /\ tPc = "saving"
  /\ saveMemory(turnMemoryData(parsedResponse), FixedTime, FixedLocation)
  /\ IF saveMemoryThrows(saveMemoryOutcome(turnMemoryData(parsedResponse),
                                           FixedTime, FixedLocation))
       THEN \* a rejection would reach processGameAction's catch
            /\ tPc' = "failed"
            /\ turnError' = "Error saving memory"
            /\ UNCHANGED turnResult
       ELSE IF historyThrows(parsedResponse)
         THEN \* the record is in the table when the history update throws
              /\ tPc' = "failed"
              /\ turnError' = "TypeError"
              /\ UNCHANGED turnResult
         ELSE /\ tPc' = "done"
              /\ turnResult' = buildResponse(parsedResponse, totalTokens)
              /\ UNCHANGED turnError
  /\ UNCHANGED <<rulesContent, dynamicContent, requests, data, toolResults,
                 finalResponse, parsedResponse, saveCalls, rowsAtStart,
                 recalls, totalTokens>>
  /\ UnchangedBesideTurn

\* No tool request of ToolCalls carries a negative limit, so one build of the
\* table's binding stands for both.
\* POST /api/process-game-action: what the handler answers once the turn has
\* returned or thrown.
NoAnswer == [ pending |-> TRUE ]
processGameActionRouteAlwaysOk == [ status |-> 200, body |-> turnResult ]
processGameActionRoute ==
  IF tPc = "done" THEN [ status |-> 200, body |-> turnResult ]
  ELSE IF tPc = "failed"
    THEN [ status |-> 500,
           body |-> [ error |-> "Failed to process game action",
                      message |-> "Error processing action. Please try again.",
                      usage |-> [ total |-> 0 ] ] ]
  ELSE NoAnswer

InitTurn ==
  /\ InitMemory /\ negativeLimitWraps /\ InitRetry /\ InitTurnIdle
  /\ InitSaversIdle /\ InitClientIdle /\ InitAppIdle

NextTurn ==
  \/ \E language \in Languages : StartTurn(language)
  \/ InitialCallFails
  \/ \E response \in InitialResponses : InitialResponseArrives(response)
  \/ ResolveToolUse
  \/ FollowupCallFails
  \/ \E response \in FollowupResponses : FollowupResponseArrives(response)
  \/ SaveMemorySettles

SpecTurn == InitTurn /\ [][NextTurn]_vars


\* ================================================ overlapping saveMemory calls

\* saveMemory step by step: a call stands at one of its awaits (createEmbedding,
\* dropTable, createTable, memoryTable.add) and goes on when that settles; the
\* calls of overlapping turns take their steps in any order. Call p saves the
\* text p.
saverData(p) == MemoryData(p, 50)

UnchangedBesideSavers == UNCHANGED <<retryVars, lastOp, turnVars, client, app>>

\* saveMemory is called and enters createEmbedding: with `embedder` unset it
\* invokes pipeline(...) and awaits the load, otherwise it awaits the embedder.
\* `loads` marks the calls that invoked pipeline(...).
SaverStarts(p) ==
  /\ savers[p].pc = "idle"
  /\ savers' = [ savers EXCEPT ![p].pc = IF embedder = NULL THEN "loading"
                                         ELSE "embedding",
                               ![p].loads = (embedder = NULL) ]
  /\ UNCHANGED memVars
  /\ UnchangedBesideSavers

\* pipeline(...) settles: `embedder` is assigned and the text goes to it, or the
\* rejection ends the call in saveMemory's catch.
SaverLoaded(p) ==
  /\ savers[p].pc = "loading"
  /\ embedder' = IF modelLoadable THEN "pipeline" ELSE embedder
  /\ savers' = [ savers EXCEPT ![p].pc = IF modelLoadable THEN "embedding"
                                         ELSE "done" ]
  /\ UNCHANGED <<memoryDatabase, memoryTable, dbExists, dbRows, modelLoadable,
                 clock, negativeLimitWraps>>
  /\ UnchangedBesideSavers

\* The embedder settles: the record is built, `if (!memoryTable)` is read and
\* the branch's first call is made (dropTable or add).
SaverEmbedded(p) ==
  /\ savers[p].pc = "embedding"
  /\ savers' =
       [ savers EXCEPT
           ![p].pc = IF memoryTable = NULL THEN "dropping" ELSE "adding",
           ![p].record = memoryRecord(saverData(p), FixedTime, FixedLocation, clock) ]
  /\ UNCHANGED <<memoryDatabase, memoryTable, embedder, dbExists, dbRows,
                 modelLoadable, clock, negativeLimitWraps>>
  /\ UnchangedBesideSavers

\* dropTable settles, rejected (and swallowed) or not; createTable is called.
SaverDropped(p) ==
  /\ savers[p].pc = "dropping"
  /\ IF dropTableThrows
       THEN UNCHANGED <<dbExists, dbRows>>
       ELSE dbExists' = FALSE /\ dbRows' = <<>>
  /\ savers' = [ savers EXCEPT ![p].pc = IF memoryDatabase = NULL THEN "done"
                                         ELSE "creating" ]
  /\ UNCHANGED <<memoryDatabase, memoryTable, embedder, modelLoadable, clock,
                 negativeLimitWraps>>
  /\ UnchangedBesideSavers

\* createTable settles: memoryTable is assigned, or the rejection is logged.
SaverCreated(p) ==
  /\ savers[p].pc = "creating"
  /\ IF createTableThrows
       THEN UNCHANGED <<memoryTable, dbExists, dbRows>>
       ELSE /\ dbExists' = TRUE
            /\ dbRows' = rowsAfterCreate(savers[p].record)
            /\ memoryTable' = "table"
  /\ savers' = [ savers EXCEPT ![p].pc = "done", ![p].stored = ~createTableThrows ]
  /\ UNCHANGED <<memoryDatabase, embedder, modelLoadable, clock, negativeLimitWraps>>
  /\ UnchangedBesideSavers

\* memoryTable.add settles.
SaverAdded(p) ==
  /\ savers[p].pc = "adding"
  /\ IF addThrows(savers[p].record.embeddings)
       THEN UNCHANGED dbRows
       ELSE dbRows' = Append(dbRows, savers[p].record)
  /\ savers' = [ savers EXCEPT ![p].pc = "done",
                               ![p].stored = ~addThrows(savers[p].record.embeddings) ]
  /\ UNCHANGED <<memoryDatabase, memoryTable, embedder, dbExists, modelLoadable,
                 clock, negativeLimitWraps>>
  /\ UnchangedBesideSavers

InitSavers ==
  /\ InitMemory /\ negativeLimitWraps /\ InitRetry /\ InitTurnIdle
  /\ InitSaversIdle /\ InitClientIdle /\ InitAppIdle

NextSavers ==
  \/ Tick
  \/ \E p \in SaverIds : SaverStarts(p)
  \/ \E p \in SaverIds : SaverLoaded(p)
  \/ \E p \in SaverIds : SaverEmbedded(p)
  \/ \E p \in SaverIds : SaverDropped(p)
  \/ \E p \in SaverIds : SaverCreated(p)
  \/ \E p \in SaverIds : SaverAdded(p)

SpecSavers == InitSavers /\ [][NextSavers]_vars


\* ========================================== the client's handleSubmitAction

\* What the player can have in the input field.
ClientTexts == { "", "  ", "go east", " look " }

\* String.prototype.trim on those texts.
Trim(text) ==
  CASE text = "  " -> ""
    [] text = " look " -> "look"
    [] OTHER -> text

\* usage.total of a turn without and with a memory search.
TurnTotals == { 1500, 3250 }

\* What the fetch of /api/process-game-action can settle with, for a request
\* sent with the given gameState: a rejected fetch, a non-OK status, an OK
\* status whose body has an error field, and the server's answer, whose
\* gameState has the turn added to its history.
RepliesTo(gameState) ==
  { [ kind |-> "network", ok |-> FALSE, hasError |-> FALSE,
      gameState |-> gameState, usage |-> [ total |-> 0 ] ],
    [ kind |-> "status", ok |-> FALSE, hasError |-> TRUE,
      gameState |-> gameState, usage |-> [ total |-> 0 ] ],
    [ kind |-> "payload", ok |-> TRUE, hasError |-> TRUE,
      gameState |-> gameState, usage |-> [ total |-> 0 ] ] }
  \cup { [ kind |-> "ok", ok |-> TRUE, hasError |-> FALSE,
           gameState |-> gameState + 1, usage |-> [ total |-> u ] ]
         : u \in TurnTotals }

\* Every reply to a request the client can send.
ClientReplies == UNION { RepliesTo(gameState) : gameState \in 0..(MaxTurns - 1) }

\* The client's processGameAction throws when fetch rejects, on a non-OK
\* status and on a body with an error field.
fetchGameActionThrows(reply) ==
  reply.kind = "network" \/ ~reply.ok \/ reply.hasError

\* The input after the catch block that clears it, as the other client
\* variants do.
inputAfterCatchCleared(playerAction) == ""

\* The input after the catch block: it only logs.
inputAfterCatch(playerAction) == playerAction

UnchangedBesideClient ==
  UNCHANGED <<retryVars, memVars, lastOp, turnVars, savers, app>>

\* onChange of the input field, which is disabled while isProcessing.
TypeAction(text) ==
  /\ ~client.isProcessing
  /\ text # client.playerAction
  /\ client' = [client EXCEPT !.playerAction = text]
  /\ UnchangedBesideClient

\* if (!playerAction.trim() || isProcessing) return;
submitIgnoredWhenEmpty(playerAction, isProcessing) == Trim(playerAction) = ""
submitIgnored(playerAction, isProcessing) ==
  Trim(playerAction) = "" \/ isProcessing

\* handleSubmitAction (the button's click or the Enter key) up to its early
\* return or its await of processGameAction; inFlight counts the turn
\* requests sent and not yet settled.
SubmitAction ==
  /\ client.gameState < MaxTurns
  /\ IF submitIgnored(client.playerAction, client.isProcessing)
       THEN UNCHANGED client
       ELSE client' = [client EXCEPT !.pc = "waiting",
                                     !.action = Trim(client.playerAction),
                                     !.isProcessing = TRUE,
                                     !.lastReply = "none",
                                     !.inFlight = @ + 1]
  /\ UnchangedBesideClient

\* handleSubmitAction from the settling of processGameAction: on a throw the
\* catch and finally blocks, otherwise the state updates up to the await of
\* loadMemories.
TurnRequestSettles(reply) ==
  /\ client.pc = "waiting"
  /\ reply \in RepliesTo(client.gameState)
  /\ client' =
       IF fetchGameActionThrows(reply)
       THEN [client EXCEPT !.pc = "idle",
                           !.inFlight = @ - 1,
                           !.playerAction = inputAfterCatch(client.playerAction),
                           !.isProcessing = FALSE,
                           !.lastReply = reply.kind]
       ELSE [client EXCEPT !.pc = "refreshing",
                           !.inFlight = @ - 1,
                           !.playerAction = "",
                           !.tokenUsage =
                             [ total |-> client.tokenUsage.total + reply.usage.total ],
                           !.gameState = reply.gameState,
                           !.lastReply = reply.kind]
  /\ UnchangedBesideClient

\* loadMemories settles (it catches its own failure), then the finally block.
LoadMemoriesSettles(loaded) ==
  /\ client.pc = "refreshing"
  /\ client' = [client EXCEPT !.pc = "idle",
                              !.memories = IF loaded THEN "fresh" ELSE @,
                              !.isProcessing = FALSE]
  /\ UnchangedBesideClient

InitClient ==
  /\ InitMemory /\ negativeLimitWraps /\ InitRetry /\ InitTurnIdle
  /\ InitSaversIdle /\ InitClientIdle /\ InitAppIdle

NextClient ==
  \/ \E text \in ClientTexts : TypeAction(text)
  \/ SubmitAction
  \/ \E reply \in ClientReplies : TurnRequestSettles(reply)
  \/ \E loaded \in BOOLEAN : LoadMemoriesSettles(loaded)

SpecClient == InitClient /\ [][NextClient]_vars


\* ============================== history compression (server/index.ts, App.tsx)

\* The entries of a history, as a set.
entriesOf(history) == { history[i] : i \in 1..Len(history) }

\* history.slice(from) and history.slice(from, -1)
sliceFrom(history, from) == SubSeq(history, from + 1, Len(history))
sliceButLast(history, from) == SubSeq(history, from + 1, Len(history) - 1)

\* The part of gameState the two server functions read. A summary is held as
\* the set of entries whose text went into it; the empty set is `null`.
gameStateOf(a) ==
  [ history |-> a.history, lastSummaryLength |-> a.lastSummaryLength,
    historySummary |-> a.historySummary ]

\* buildGameMasterPrompt: {{recentHistory}} is the whole history while it is
\* short, otherwise the summary and history.slice(lastSummaryLength).
buildGameMasterPrompt(gameState) ==
  IF Len(gameState.history) <= historyLength
    THEN [ summary |-> {}, verbatim |-> gameState.history ]
    ELSE [ summary |-> gameState.historySummary,
           verbatim |-> sliceFrom(gameState.history, gameState.lastSummaryLength) ]

NoCompression ==
  [ compressionNeeded |-> FALSE, historySummary |-> {}, lastSummaryLength |-> 0 ]

\* processHistoryCompression: the old summary and history.slice(lastSummaryLength, -1)
\* go to summarizeHistory; lastSummaryLength becomes history.length.
processHistoryCompression(gameState) ==
  IF Len(gameState.history) <= gameState.lastSummaryLength + historyLength
    THEN NoCompression
    ELSE [ compressionNeeded |-> TRUE,
           historySummary |->
             gameState.historySummary
               \cup entriesOf(sliceButLast(gameState.history,
                                           gameState.lastSummaryLength)),
           lastSummaryLength |-> Len(gameState.history) ]

\* The games of a session: the one the component mounts with, those started
\* with newGame, and the one of a save file.
GameName(k) == "g" \o ToString(k)
entry(game, n) == [ game |-> game, n |-> n ]

\* The gameState of the save file loadGame reads.
SavedGame ==
  [ history |-> << entry("file", 1), entry("file", 2) >>,
    lastSummaryLength |-> 0, historySummary |-> {} ]

RemoveAt(s, i) == [ k \in 1..(Len(s) - 1) |-> IF k < i THEN s[k] ELSE s[k + 1] ]

UnchangedBesideApp ==
  UNCHANGED <<retryVars, memVars, lastOp, turnVars, savers, client>>

\* processAction: generateResponse builds the prompt from gameState, then
\* setGameState appends the action and the response, and the compression of
\* the new state is requested.
ProcessAction ==
  /\ Len(app.history) + 2 <= MaxHistory
  /\ Len(app.pending) < MaxPending
  /\ LET n == Len(app.history)
         finalHistory == app.history \o << entry(app.game, n + 1),
                                           entry(app.game, n + 2) >>
         newState == [ gameStateOf(app) EXCEPT !.history = finalHistory ]
     IN  app' = [ app EXCEPT
                    !.prompt = buildGameMasterPrompt(gameStateOf(app)),
                    !.history = finalHistory,
                    !.pending = Append(@, [ phase |-> "sent",
                                            gameState |-> newState,
                                            result |-> NoCompression ]) ]
  /\ UnchangedBesideApp

\* POST /api/compress-history answers; when no compression is needed the
\* client only resets its status line.
CompressHistoryAnswers(i) ==
  /\ i <= Len(app.pending)
  /\ app.pending[i].phase = "sent"
  /\ LET result == processHistoryCompression(app.pending[i].gameState)
     IN  app' = [ app EXCEPT
                    !.pending =
                      IF result.compressionNeeded
                        THEN [ @ EXCEPT ![i].phase = "answered",
                                        ![i].result = result ]
                        ELSE RemoveAt(@, i) ]
  /\ UnchangedBesideApp

\* The delayed setGameState(currentState => ...) of an answered request.
CompressionApplied(i) ==
  /\ i <= Len(app.pending)
  /\ app.pending[i].phase = "answered"
  /\ app' = [ app EXCEPT
                !.historySummary = app.pending[i].result.historySummary,
                !.lastSummaryLength = app.pending[i].result.lastSummaryLength,
                !.pending = RemoveAt(@, i) ]
  /\ UnchangedBesideApp

\* newGame: setGameState of the initial state, with its one history entry.
NewGame ==
  /\ app.started < MaxGames
  /\ app' = [ app EXCEPT
                !.started = @ + 1,
                !.game = GameName(app.started + 1),
                !.history = << entry(GameName(app.started + 1), 1) >>,
                !.historySummary = {},
                !.lastSummaryLength = 0 ]
  /\ UnchangedBesideApp

\* loadGame: setGameState of the file's gameState.
LoadGame ==
  /\ app.game # "file"
  /\ app' = [ app EXCEPT
                !.game = "file",
                !.history = SavedGame.history,
                !.historySummary = SavedGame.historySummary,
                !.lastSummaryLength = SavedGame.lastSummaryLength ]
  /\ UnchangedBesideApp

InitHistory ==
  /\ InitMemory /\ negativeLimitWraps /\ InitRetry /\ InitTurnIdle
  /\ InitSaversIdle /\ InitClientIdle /\ InitAppIdle

NextHistory ==
  \/ ProcessAction
  \/ \E i \in 1..MaxPending : CompressHistoryAnswers(i)
  \/ \E i \in 1..MaxPending : CompressionApplied(i)
  \/ NewGame
  \/ LoadGame

SpecHistory == InitHistory /\ [][NextHistory]_vars


\* ==================================================================== claims

IsSearchRequest(block) == block.type = "tool_use" /\ block.name = "search_memory"

\* How many search_memory requests a response holds, and the k-th of them in
\* the order they appear.
SearchRequestCount(content) ==
  Cardinality({ i \in 1..Len(content) : IsSearchRequest(content[i]) })

SearchRequestAt(content, k) ==
  content[CHOOSE i \in 1..Len(content) :
            /\ IsSearchRequest(content[i])
            /\ Cardinality({ j \in 1..i : IsSearchRequest(content[j]) }) = k]

HasToolUseBlock(response) ==
  \E i \in 1..Len(response.content) : response.content[i].type = "tool_use"

\* C1: a turn makes at most 2 model calls whatever the Initial response holds,
\* and exactly 2 once an Initial response with n >= 1 search_memory requests has
\* been resolved; the follow-up response never leads to a third call, tool_use
\* blocks in it or not.
C1_AtMostTwoModelCalls ==
  /\ Len(requests) <= 2
  /\ (data # NoResponse /\ SearchRequestCount(data.content) >= 1
        /\ tPc # "resolving") => Len(requests) = 2
  /\ finalResponse # NoResponse => tPc \in { "saving", "done", "failed" }

C1_Witness ==
  /\ tPc = "done"
  /\ SearchRequestCount(data.content) = 3
  /\ Len(requests) = 2
  /\ HasToolUseBlock(finalResponse)

\* C2: the follow-up request carries exactly one tool_result per search_memory
\* request, the i-th with the id of the i-th request in the response's order
\* and with the text made from the recall of that request's query (and limit).
C2_ToolResultsInRequestOrder ==
  /\ Len(recalls) = Len(toolResults)
  /\ Len(toolResults) <= SearchRequestCount(data.content)
  /\ \A k \in 1..Len(toolResults) :
       LET request == SearchRequestAt(data.content, k)
       IN  /\ toolResults[k].type = "tool_result"
           /\ toolResults[k].tool_use_id = request.id
           /\ recalls[k].query = request.input.query
           /\ toolResults[k].content = memoriesText(recalls[k].memories)
           /\ tPc \in { "resolving", "followup" } =>
                recalls[k].memories =
                  findMemory(request.input.query, recalls[k].limit,
                             MEMORY_RELEVANCE_THRESHOLD).memories
  /\ Len(requests) = 2 =>
       /\ Len(toolResults) = SearchRequestCount(data.content)
       /\ requests[2].messages[3].content = toolResults

C2_Witness ==
  /\ Len(requests) = 2
  /\ SearchRequestCount(data.content) = 3
  /\ \A j, k \in 1..3 : j # k =>
       /\ toolResults[j].content # toolResults[k].content
       /\ toolResults[j].tool_use_id # toolResults[k].tool_use_id
  /\ toolResults[1].tool_use_id # 1

AllOverloaded == \A i \in 1..Len(fetchLog) : fetchLog[i] = "s529"

C4_ThreeAttemptsThenFails ==
  AllOverloaded =>
    /\ Len(fetchLog) <= 3
    /\ ccPc # "returned"
    /\ ccPc = "thrown" <=> (Len(fetchLog) = 3)
    /\ ccPc = "delaying" => Len(fetchLog) = Len(delayLog) /\ Len(fetchLog) < 3
    /\ ccPc = "fetching" => Len(fetchLog) = attempt - 1

C4_Witness ==
  /\ AllOverloaded
  /\ ccPc = "thrown"
  /\ Len(fetchLog) = 3
  /\ delayLog = <<2000, 4000>>

\* C5: a non-OK response whose status is not 529 makes callClaude fail at once:
\* it is the last fetch, the call has thrown and no delay followed it.
C5_OtherStatusFailsAtOnce ==
  \A i \in 1..Len(fetchLog) :
    fetchLog[i] \in { "s400", "s500" } =>
      /\ i = Len(fetchLog)
      /\ ccPc = "thrown"
      /\ Len(delayLog) < i


\* ---- the reference recall: every stored row by ascending distance to the
\* query, those with 1 - distance >= threshold kept, the first `limit` taken.
RefDistance(row, query) == Distance(row.embeddings, Embed(query))

RefRank(query, i) ==
  1 + Cardinality({ j \in 1..Len(dbRows) :
        \/ RefDistance(dbRows[j], query) < RefDistance(dbRows[i], query)
        \/ /\ RefDistance(dbRows[j], query) = RefDistance(dbRows[i], query)
           /\ j < i })

RefOrdered(query) ==
  [ k \in 1..Len(dbRows) |->
      dbRows[CHOOSE i \in 1..Len(dbRows) : RefRank(query, i) = k] ]

RefRecall(query, limit, threshold) ==
  LET kept == SelectSeq(RefOrdered(query),
                        LAMBDA r : 100 - RefDistance(r, query) >= threshold)
  IN  SubSeq(kept, 1, Min(limit, Len(kept)))

SameMemories(memories, rows) ==
  /\ Len(memories) = Len(rows)
  /\ \A i \in 1..Len(rows) :
       /\ memories[i].content = rows[i].content
       /\ memories[i].createdAt = rows[i].createdAt
       /\ memories[i].importance = rows[i].importance
       /\ memories[i].time = rows[i].time
       /\ memories[i].location = rows[i].location
       /\ memories[i].theme = rows[i].theme
       /\ memories[i].emotions = rows[i].emotions

\* C6: for every store content, query, limit >= 1 and threshold, a findMemory
\* whose search ran returns exactly the reference recall, although it fetches
\* only limit * 3 candidates: never more than `limit` records, none below the
\* threshold, nearest first.
C6_FindMemoryIsReferenceRecall ==
  /\ (lastOp.op = "findMemory" /\ ~lastOp.found.caught /\ lastOp.limit >= 1) =>
       /\ SameMemories(lastOp.found.memories,
                       RefRecall(lastOp.query, lastOp.limit, lastOp.threshold))
       /\ Len(lastOp.found.memories) <= lastOp.limit
  /\ \A query \in QueryTexts, limit \in { 1, 2, 3 }, threshold \in { 0, 60, 90 } :
       ~findMemory(query, limit, threshold).caught =>
         SameMemories(findMemory(query, limit, threshold).memories,
                      RefRecall(query, limit, threshold))

\* A search over more rows than the limit * 3 that were fetched, in which the
\* threshold removed a row and the limit cut the rest.
C6_Witness ==
  /\ lastOp.op = "findMemory"
  /\ ~lastOp.found.caught
  /\ Len(dbRows) > lastOp.limit * 3
  /\ Len(lastOp.found.memories) = lastOp.limit
  /\ \E i, j \in 1..Len(dbRows) :
       /\ 100 - RefDistance(dbRows[i], lastOp.query) < lastOp.threshold
       /\ 100 - RefDistance(dbRows[j], lastOp.query) = lastOp.threshold

\* C7: while memoryTable is null, findMemory and GET /api/memories without a
\* query answer with an empty list, throw nothing and never call the embedder,
\* whether the embedding model can be loaded or not.
C7_NoTableMeansEmptyWithoutEmbedding ==
  memoryTable = NULL =>
    /\ lastOp.op = "findMemory" =>
         lastOp.found = [ memories |-> <<>>, embedCalls |-> 0, caught |-> FALSE ]
    /\ (lastOp.op = "getMemories" /\ ~lastOp.hasQuery) =>
         lastOp.res = [ status |-> 200, body |-> <<>>, embedCalls |-> 0 ]
    /\ lastOp.op \in { "findMemory", "getMemories" } /\ ~modelLoadable =>
         embedder = NULL
    /\ \A query \in QueryTexts, limit \in Limits, threshold \in Thresholds :
         findMemory(query, limit, threshold) =
           [ memories |-> <<>>, embedCalls |-> 0, caught |-> FALSE ]
    /\ listAll = [ status |-> 200, body |-> <<>>, embedCalls |-> 0 ]
    /\ embedderAfterFindMemory = embedder

C7_Witness ==
  /\ memoryTable = NULL
  /\ ~modelLoadable
  /\ lastOp.op = "findMemory"

\* C8: clearMemory never throws, on a store never written, right after another
\* clearMemory, or after writes; after it GET /api/memories without a query
\* answers with an empty list, and the store is one in which a further
\* clearMemory throws nothing either (its dropTable is rejected and swallowed,
\* which leaves every variable as it is).
C8_ClearMemoryIdempotent ==
  lastOp.op = "clearMemory" =>
    /\ ~lastOp.out.threw
    /\ listAll = [ status |-> 200, body |-> <<>>, embedCalls |-> 0 ]
    /\ clearMemoryOutcome = [ threw |-> FALSE, dropThrew |-> TRUE ]

\* clearMemory on a store with no table: dropTable rejected inside it.
C8_Witness ==
  /\ lastOp.op = "clearMemory"
  /\ lastOp.out.dropThrew

\* C9: after clearMemory the store is as before its first write: no table, a
\* null handle, nothing for findMemory or list-all to return; reads keep it so,
\* and the next saveMemory that stores its record creates a table holding that
\* record alone.
PreFirstWrite == memoryTable = NULL /\ ~dbExists /\ dbRows = <<>>

C9_ClearMemoryRestoresPreFirstWrite ==
  /\ [](lastOp.op = "clearMemory" =>
          /\ PreFirstWrite
          /\ listAll.body = <<>>
          /\ \A query \in QueryTexts, limit \in Limits :
               findMemory(query, limit, 0).memories = <<>>)
  /\ [][(PreFirstWrite /\ lastOp'.op \in { "findMemory", "getMemories" }) =>
          PreFirstWrite']_vars
  /\ [][(PreFirstWrite /\ lastOp'.op = "saveMemory" /\ lastOp'.out.stored) =>
          /\ lastOp'.out.created
          /\ memoryTable' # NULL
          /\ dbExists'
          /\ dbRows' = << lastOp'.record >>]_vars

\* clearMemory dropped a table that held rows.
C9_Witness ==
  /\ lastOp.op = "clearMemory"
  /\ ~lastOp.out.dropThrew
  /\ PreFirstWrite

\* C10: the turn calls saveMemory once when the parsed importance is >= 0.1 and
\* not at all when it is lower or absent, and then the table is as the turn
\* found it.
WantsMemory(parsed) == "importance" \in DOMAIN parsed /\ parsed.importance >= 10

C10_ImportanceGatesSaveMemory ==
  tPc # "idle" =>
    /\ saveCalls <= 1
    /\ parsedResponse = NoParse => saveCalls = 0 /\ dbRows = rowsAtStart
    /\ tPc \in { "saving", "done" } => parsedResponse # NoParse
    /\ parsedResponse # NoParse =>
         /\ tPc \in { "saving", "done", "failed" }
         /\ saveCalls = IF WantsMemory(parsedResponse) THEN 1 ELSE 0
         /\ ~WantsMemory(parsedResponse) => tPc # "saving" /\ dbRows = rowsAtStart

C10_Witness ==
  /\ tPc = "done"
  /\ saveCalls = 1
  /\ parsedResponse.importance = 10
  /\ Len(dbRows) = Len(rowsAtStart) + 1

\* C11: a saveMemory call, and a POST /api/save-memory, that succeeds adds its
\* record and nothing else to the table (one that does not succeed leaves the
\* rows alone), and whether it succeeds does not depend on the importance
\* handed to it: importance 0 is stored like 0.5.
WithImportance(memoryData, i) == [ memoryData EXCEPT !.importance = i ]

C11_WritesAddOneRecordUngated ==
  /\ [][(/\ lastOp'.op \in { "saveMemory", "postSaveMemory" }
          /\ <<dbRows, lastOp>>' # <<dbRows, lastOp>>) =>
          dbRows' = IF lastOp'.out.stored THEN Append(dbRows, lastOp'.record)
                    ELSE dbRows]_vars
  /\ [](\A m \in MemoryInputs, i \in Importances, hasEmbeddings \in BOOLEAN :
          /\ saveMemoryOutcome(WithImportance(m, i), FixedTime, FixedLocation)
               = saveMemoryOutcome(m, FixedTime, FixedLocation)
          /\ postSaveMemoryOutcome(savedRecord(WithImportance(m, i), FixedTime,
                                               FixedLocation, hasEmbeddings))
               = postSaveMemoryOutcome(savedRecord(m, FixedTime, FixedLocation,
                                                   hasEmbeddings)))

\* saveMemory added a record of importance 0 to a table holding two rows.
C11_Witness ==
  /\ lastOp.op = "saveMemory"
  /\ lastOp.out.stored /\ ~lastOp.out.created
  /\ lastOp.record.importance = 0
  /\ Len(dbRows) = 3
  /\ dbRows[3] = lastOp.record

\* C12: with a record of content c stored, findMemory(c, 1, 0) whose search
\* ran returns one result, its content is c and its similarity is a number of
\* at least 0.99.
C12_RoundTripSimilarity ==
  (/\ lastOp.op = "findMemory" /\ ~lastOp.found.caught
   /\ lastOp.limit = 1 /\ lastOp.threshold = 0
   /\ \E i \in 1..Len(dbRows) : dbRows[i].content = lastOp.query) =>
    /\ Len(lastOp.found.memories) = 1
    /\ lastOp.found.memories[1].content = lastOp.query
    /\ lastOp.found.memories[1].similarity[1] # "N/A"
    /\ lastOp.found.memories[1].similarity[2] >= 99

\* C13: with threshold 0, findMemory(query, L, 0) whose search ran on a table
\* of at least L rows returns the L nearest rows, nearest first, whatever their
\* distances are.
C13_ThresholdZeroDisablesFiltering ==
  (/\ lastOp.op = "findMemory" /\ ~lastOp.found.caught
   /\ lastOp.threshold = 0 /\ lastOp.limit >= 1
   /\ Len(dbRows) >= lastOp.limit) =>
    /\ Len(lastOp.found.memories) = lastOp.limit
    /\ SameMemories(lastOp.found.memories,
                    SubSeq(RefOrdered(lastOp.query), 1, lastOp.limit))

\* C14: findMemory with limit <= 0 returns an empty list.
C14_NonPositiveLimitMeansEmpty ==
  (lastOp.op = "findMemory" /\ lastOp.limit <= 0) => lastOp.found.memories = <<>>

\* C16: a findMemory or saveMemory in which createEmbedding or the table
\* operation failed signals the failure to its caller.
C16_FailuresPropagate ==
  /\ (lastOp.op = "findMemory" /\ lastOp.found.caught) => lastOp.threw
  /\ (lastOp.op = "saveMemory" /\ ~lastOp.out.stored) => lastOp.threw

\* C15: a recall of the tool loop in which the embedder or the table failed
\* does not end the turn: no error of the recall becomes the turn's error, the
\* tool result of that request is the 'No relevant memories found' text, and
\* once the loop is through the follow-up request has been made.
C15_RecallFailureDoesNotAbortTurn ==
  /\ turnError \in { NULL, "Claude API failed", "Claude returned empty response",
                      "No JSON found in response", "SyntaxError", "TypeError" }
  /\ \A k \in 1..Len(recalls) :
       recalls[k].caught =>
         /\ k <= Len(toolResults)
         /\ toolResults[k].content = << <<"No relevant memories found">> >>
         /\ tPc # "resolving" => Len(requests) = 2

\* A turn with a failed recall came to its normal end.
C15_Witness ==
  /\ tPc = "done"
  /\ \E k \in 1..Len(recalls) : recalls[k].caught

\* C17: the text of every tool_result is never empty: for a recall that found
\* memories it has one line per memory, made of its content and importance, in
\* the recall's order; for a recall that found none it is the one line
\* 'No relevant memories found'.
C17_ToolResultTextNeverEmpty ==
  \A k \in 1..Len(toolResults) :
    LET text == toolResults[k].content
        memories == recalls[k].memories
    IN  /\ Len(text) >= 1
        /\ \A i \in 1..Len(text) : Len(text[i]) >= 1
        /\ memories = <<>> => text = << <<"No relevant memories found">> >>
        /\ memories # <<>> =>
             /\ Len(text) = Len(memories)
             /\ \A i \in 1..Len(memories) :
                  text[i] = << memories[i].content, "(importance:",
                               memories[i].importance, ")" >>

\* One follow-up request with a two-line result and a sentinel result.
C17_Witness ==
  /\ Len(requests) = 2
  /\ \E j, k \in 1..Len(toolResults) :
       /\ Len(recalls[j].memories) = 2 /\ Len(toolResults[j].content) = 2
       /\ recalls[k].memories = <<>>

\* C18: an Initial response without a search_memory request, tool_use blocks
\* of other tools or none, is the final response: one model call, no recall, no
\* tool result, and what the turn goes on with is parsed from its text.
C18_NoSearchRequestMeansOneCall ==
  (data # NoResponse /\ SearchRequestCount(data.content) = 0) =>
    /\ Len(requests) = 1
    /\ recalls = <<>> /\ toolResults = <<>>
    /\ finalResponse = data
    /\ tPc \in { "saving", "done", "failed" }
    /\ tPc \in { "saving", "done" } =>
         /\ firstText(data).kind = "json"
         /\ parsedResponse = firstText(data).object

\* A response with a text block and requests for another tool only.
C18_Witness ==
  /\ tPc = "done"
  /\ HasToolUseBlock(data)
  /\ SearchRequestCount(data.content) = 0
  /\ Len(requests) = 1

\* C19: the total of a turn that returns is the usage of the Initial response,
\* plus the usage of the follow-up response when a second call was made.
C19_UsageIsSumOverCallsMade ==
  tPc \in { "saving", "done" } =>
    totalTokens =
      (data.usage.input_tokens + data.usage.output_tokens)
      + (IF Len(requests) = 2
           THEN finalResponse.usage.input_tokens + finalResponse.usage.output_tokens
           ELSE 0)

\* C20: once every one of the overlapping saveMemory calls has completed, with
\* an embedder that works, the table holds the record of each of them.
C20_OverlappingSavesKeepEveryRecord ==
  (modelLoadable /\ \A p \in SaverIds : savers[p].pc = "done") =>
    \A p \in SaverIds :
      \E i \in 1..Len(dbRows) : dbRows[i] = savers[p].record

\* C21: however createEmbedding calls overlap, pipeline(...) is invoked by at
\* most one of them while the model can be loaded.
C21_PipelineInvokedOnce ==
  modelLoadable => Cardinality({ p \in SaverIds : savers[p].loads }) <= 1

\* C22: a saveMemory that stores nothing does not change how the turn ends:
\* the turn returns, and what it returns is built from the parsed answer and
\* the token count alone, as after a saveMemory that stored.
C22_FailedSaveLeavesTurnResult ==
  /\ turnError # "Error saving memory"
  /\ (saveCalls = 1 /\ tPc # "saving" /\ parsedResponse.newEmotions.type = "array") =>
       /\ tPc = "done"
       /\ processGameActionRoute =
            [ status |-> 200,
              body |-> [ reaction |-> parsedResponse.reaction,
                         worldResponse |-> parsedResponse.worldResponse,
                         usage |-> [ total |-> totalTokens ],
                         gameState |-> turnResult.gameState ] ]
       /\ turnResult.gameState.event = parsedResponse.worldResponse
       /\ Len(turnResult.gameState.history) = 2
  /\ (saveCalls = 1 /\ tPc # "saving" /\ parsedResponse.newEmotions.type # "array") =>
       \* stored or not, the history update throws
       /\ tPc = "failed" /\ turnError = "TypeError"

\* The turn returned although its saveMemory could not embed.
C22_Witness ==
  /\ tPc = "done"
  /\ saveCalls = 1
  /\ ~modelLoadable
  /\ dbRows = rowsAtStart

\* C30: a final text without a JSON object, or with invalid JSON, ends the
\* turn in an error (status 500) with no saveMemory call and the table as it
\* was; a parsed answer of importance below 0.1 ends it with status 200 and the
\* turn's result, also with no write: the two are told apart by the answer.
FinalText == responseText(finalResponse, data)

C30_ParseFailureIsAnError ==
  /\ (finalResponse # NoResponse /\ FinalText.kind \in { "prose", "badjson" }) =>
       /\ tPc = "failed"
       /\ turnError = IF FinalText.kind = "prose" THEN "No JSON found in response"
                      ELSE "SyntaxError"
       /\ saveCalls = 0 /\ dbRows = rowsAtStart
       /\ processGameActionRoute.status = 500
       /\ "error" \in DOMAIN processGameActionRoute.body
  /\ (tPc = "done" /\ ~WantsMemory(parsedResponse)) =>
       /\ saveCalls = 0 /\ dbRows = rowsAtStart
       /\ processGameActionRoute.status = 200
       /\ "error" \notin DOMAIN processGameActionRoute.body
       /\ processGameActionRoute.body.reaction = parsedResponse.reaction

\* The follow-up response of a turn with memory search held invalid JSON.
C30_Witness ==
  /\ tPc = "failed"
  /\ turnError = "SyntaxError"
  /\ Len(requests) = 2

\* C27: a search_memory request without `limit` is recalled with limit 3, and
\* 3 is the default the tool declaration of the Initial request gives for it.
C27_DeclaredDefaultIsTheDefaultUsed ==
  /\ \A k \in 1..Len(recalls) :
       "limit" \notin DOMAIN SearchRequestAt(data.content, k).input =>
         recalls[k].limit = 3
  /\ Len(requests) >= 1 =>
       requests[1].tools[1].properties.limit.default = 3

\* C24: GET /api/memories without a query answers with every row of the table,
\* each as often as the table holds it, newest createdAt first, and calls no
\* embedding.
Occurrences(seq, r) == Cardinality({ i \in 1..Len(seq) : seq[i] = r })

C24_ListAllIsEveryRecordNewestFirst ==
  /\ (lastOp.op = "getMemories" /\ ~lastOp.hasQuery) =>
       /\ lastOp.res.status = 200
       /\ lastOp.res.embedCalls = 0
       /\ Len(lastOp.res.body) = Len(dbRows)
       /\ \A i \in 1..Len(dbRows) :
            Occurrences(lastOp.res.body, dbRows[i]) = Occurrences(dbRows, dbRows[i])
       /\ \A i \in 1..(Len(lastOp.res.body) - 1) :
            lastOp.res.body[i].createdAt >= lastOp.res.body[i + 1].createdAt
  /\ listAll.embedCalls = 0
  /\ Len(listAll.body) = Len(dbRows)

\* A listing of four rows that is not in the table's own order.
C24_Witness ==
  /\ lastOp.op = "getMemories" /\ ~lastOp.hasQuery
  /\ Len(lastOp.res.body) = 4
  /\ lastOp.res.body # dbRows
  /\ lastOp.res.body[1].createdAt > lastOp.res.body[4].createdAt

\* C25: the rows of the table have pairwise distinct ids, however the
\* saveMemory calls that wrote them overlapped.
C25_IdsPairwiseDistinct ==
  \A i, j \in 1..Len(dbRows) : i # j => dbRows[i].id # dbRows[j].id

\* C26: a step that is not a clearMemory keeps every row of the table, in
\* place and unchanged.
C26_RecordsLeaveOnlyByClearMemory ==
  [][\/ lastOp'.op = "clearMemory" /\ lastOp' # lastOp
     \/ /\ Len(dbRows') >= Len(dbRows)
        /\ \A i \in 1..Len(dbRows) : dbRows'[i] = dbRows[i]]_vars

\* C28: a write that finds no open handle while the table bilbo_memories
\* exists, and can embed, replaces the table by one holding its record; this
\* for saveMemory and for POST /api/save-memory.
C28_CreateOverExistingTableSucceeds ==
  [][(/\ memoryTable = NULL /\ dbExists /\ modelLoadable
      /\ lastOp' # lastOp
      /\ lastOp'.op \in { "saveMemory", "postSaveMemory" }) =>
       /\ lastOp'.out.stored
       /\ memoryTable' # NULL
       /\ dbRows' = << lastOp'.record >>]_vars

\* C29: a saveMemory whose record does not have the shape of the open table
\* ends with the record stored, in a table created anew.
C29_ShapeMismatchRecreatesTable ==
  [][(/\ memoryTable # NULL /\ dbExists /\ createEmbeddingOk
      /\ lastOp' # lastOp
      /\ lastOp'.op = "saveMemory"
      /\ shapeOf(lastOp'.record.embeddings) # shapeOf(dbRows[1].embeddings)) =>
       /\ lastOp'.out.stored
       /\ \E i \in 1..Len(dbRows') : dbRows'[i] = lastOp'.record]_vars


\* C23: in the client's handleSubmitAction, a turn request that fails (the
\* fetch rejects, the status is not OK, or the body carries an error) leaves
\* the typed action in the input field, leaves gameState as it was and ends
\* processing, so that the same action can be submitted again; while a request
\* is awaited the input is cleared only by a successful response.
C23_FailedTurnKeepsInput ==
  [][ (client.pc = "waiting" /\ client' # client)
        => /\ client'.lastReply # "ok"
                => /\ client'.playerAction = client.playerAction
                   /\ Trim(client'.playerAction) = client.action
                   /\ client.action # ""
                   /\ client'.gameState = client.gameState
                   /\ client'.tokenUsage = client.tokenUsage
                   /\ ~client'.isProcessing
           /\ client'.playerAction # client.playerAction
                => /\ client'.lastReply = "ok"
                   /\ client'.playerAction = "" ]_vars

\* A turn has been played, and the next request was answered with a non-OK
\* status: the action is still in the input field.
C23_Witness ==
  /\ client.pc = "idle"
  /\ client.lastReply = "status"
  /\ client.gameState = 1
  /\ client.playerAction = " look "
  /\ client.action = "look"
  /\ ~client.isProcessing


\* C31: every record written through POST /api/save-memory has an embedding
\* when it reaches the table: a body without embeddings gets the embedding of
\* its content before createTable or add, and when createEmbedding fails the
\* table is left as it was and the request answers 500.
C31_PostedRecordsAreEmbedded ==
  [][ (lastOp'.op = "postSaveMemory" /\ <<dbRows, lastOp>>' # <<dbRows, lastOp>>)
        => /\ \A i \in 1..Len(dbRows') :
                /\ "embeddings" \in DOMAIN dbRows'[i]
                /\ Len(dbRows'[i].embeddings) > 0
           /\ ~lastOp'.sentEmbeddings =>
                IF createEmbeddingOk
                  THEN lastOp'.out.stored =>
                         /\ dbRows' # << >>
                         /\ dbRows'[Len(dbRows')].content = lastOp'.record.content
                         /\ dbRows'[Len(dbRows')].embeddings
                              = Embed(lastOp'.record.content)
                  ELSE /\ dbRows' = dbRows
                       /\ ~lastOp'.out.stored
                       /\ lastOp'.out.status = 500 ]_vars

\* A body without embeddings created the table: its row carries the embedding
\* of its content.
C31_Witness ==
  /\ lastOp.op = "postSaveMemory"
  /\ ~lastOp.sentEmbeddings
  /\ lastOp.out.stored /\ lastOp.out.created
  /\ Len(dbRows) = 1
  /\ dbRows[1].embeddings = Embed(dbRows[1].content)


\* C32: a turn that fails (processGameAction throws, the route answers 500)
\* has written no memory record: the table is as the turn found it.
C32_FailedTurnWritesNothing ==
  (tPc = "failed" /\ processGameActionRoute.status = 500) => dbRows = rowsAtStart


\* C33: in the follow-up request, every tool_use block of the replayed
\* assistant message has exactly one tool_result with its id, also when the
\* Initial response holds requests for another tool beside search_memory.
C33_EveryToolUseIsAnswered ==
  Len(requests) = 2 =>
    LET replayed == requests[2].messages[2].content
        results  == requests[2].messages[3].content
    IN  \A i \in 1..Len(replayed) :
          replayed[i].type = "tool_use" =>
            Cardinality({ k \in 1..Len(results) :
                            results[k].tool_use_id = replayed[i].id }) = 1


\* C34: the table handle is non-null exactly when the bilbo_memories table
\* exists, whenever no memory operation is in flight: no operation
\* (initializeMemory, saveMemory, POST /api/save-memory, clearMemory), with or
\* without a failing database call, leads from a state where the two agree
\* to one where they differ.
HandleMatchesTable == (memoryTable # NULL) <=> dbExists

C34_HandleStaysConsistent ==
  [][ HandleMatchesTable => HandleMatchesTable' ]_vars


\* C35: callClaude with retries = 3 fetches at most 3 times whatever the
\* fetches settle with; an OK response whose body was read ends the call at
\* once with that body; after the last attempt there is no wait (at most 2
\* delays, each before a further fetch); and the call ends by returning a body
\* or by throwing, never by returning undefined.
C35_BoundedAttemptsNoTrailingWait ==
  /\ Len(fetchLog) <= DefaultRetries
  /\ ccResult # "undefined"
  /\ \A i \in 1..Len(fetchLog) :
       fetchLog[i] = "ok" =>
         i = Len(fetchLog) /\ ccPc = "returned" /\ ccResult = "body"
  /\ ccPc = "returned" =>
       /\ ccResult = "body"
       /\ fetchLog # << >> /\ fetchLog[Len(fetchLog)] = "ok"
  /\ Len(delayLog) <= DefaultRetries - 1
  /\ ccPc = "delaying" => Len(fetchLog) < DefaultRetries
  /\ ccPc \in { "returned", "thrown" } => Len(delayLog) = Len(fetchLog) - 1
  /\ ccPc = "thrown" => Len(fetchLog) = DefaultRetries

\* A network error, a 529 and a 500: three fetches, two waits, then the throw.
C35_Witness ==
  /\ ccPc = "thrown"
  /\ fetchLog = << "netErr", "s529", "s500" >>
  /\ delayLog = << 2000, 4000 >>


\* C36: compression loses no entry: in a game played without newGame or
\* loadGame, once a summary is stored every history entry either went into
\* the summary or is verbatim in the prompt buildGameMasterPrompt builds from
\* the stored state.
C36_EveryEntryInSummaryOrPrompt ==
  (app.game = "g0" /\ app.historySummary # {}) =>
    \A i \in 1..Len(app.history) :
      \/ app.history[i] \in app.historySummary
      \/ app.history[i]
           \in entriesOf(buildGameMasterPrompt(gameStateOf(app)).verbatim)

\* C37: in the App.tsx client lastSummaryLength never exceeds history.length
\* and the summary holds entries of the current game's history only, also
\* when newGame or loadGame runs while a compress-history request is in
\* flight and its state update is applied afterwards.
C37_SummaryBelongsToCurrentHistory ==
  /\ app.lastSummaryLength <= Len(app.history)
  /\ app.historySummary \subseteq entriesOf(app.history)


\* C38: in the client's handleSubmitAction, submitting a non-empty action
\* sets isProcessing; it is false again when the handler has ended after the
\* request resolved or rejected; a submission while it is true changes
\* nothing, so at most one turn request is in flight.
C38_OneTurnRequestInFlight ==
  /\ [](/\ client.inFlight \in { 0, 1 }
        /\ client.inFlight = 1 <=> client.pc = "waiting"
        /\ client.isProcessing <=> client.pc # "idle")
  /\ [][ /\ client'.inFlight > client.inFlight =>
              /\ ~client.isProcessing /\ client'.isProcessing
              /\ client'.action # ""
         /\ client'.inFlight < client.inFlight =>
              (client'.isProcessing <=> client'.lastReply = "ok") ]_vars

\* The second turn's request is in flight: isProcessing was set, reset when
\* the first turn ended, and set again.
C38_Witness ==
  /\ client.pc = "waiting"
  /\ client.isProcessing
  /\ client.inFlight = 1
  /\ client.gameState = 1
  /\ client.tokenUsage.total > 0

====
